---- MODULE Spec2Model ----
(***************************************************************************)
(* FPL transfer optimizer: prefilter_players, the MILP built and solved by *)
(* optimize_transfers, the extraction of the result, and the do_POST       *)
(* transport handlers that wrap it.                                        *)
(*                                                                         *)
(* Units.  Money is counted in tenths of a million (the granularity of FPL *)
(* prices), projected points in tenths of a point, the horizon weights in  *)
(* hundredths; a weighted score is therefore an integer number of          *)
(* thousandths of a point.  expected_points, which the code rounds to two  *)
(* decimals, is reported in hundredths of a point.                         *)
(*                                                                         *)
(* An optional value (bank, selling_price) is a sequence of length 0       *)
(* (absent / None) or 1 (present).                                         *)
(***************************************************************************)
EXTENDS Integers, Sequences, FiniteSets, TLC

VARIABLES
    request,            \* the JSON body handed to do_POST / optimize_transfers
    pc,                 \* position inside do_POST -> optimize_transfers
    filtered_players,   \* result of prefilter_players
    prob,               \* solver outcome: status and variable assignment
    outcome,            \* what optimize_transfers returned or raised
    response            \* what do_POST wrote

vars == <<request, pc, filtered_players, prob, outcome, response>>

----------------------------------------------------------------------------
(* Bounds of the explored request family *)

MaxHorizon == 2
MaxFreeTransfers == 2
MaxTransfersCap == 2

(* Bounds of the second request family: the largest group of candidates of *)
(* one position, and the longest horizon                                   *)
MaxCandidates == 62
MaxLongHorizon == 9

(* Largest value of the integer variable `hits` the solver is offered; it  *)
(* is one more than any value the lower bound can force.                   *)
MaxHits == MaxTransfersCap + 2

----------------------------------------------------------------------------
(* Program constants *)

HORIZON_WEIGHTS == <<100, 85, 70, 55, 40, 30, 20, 15>>

FALLBACK_WEIGHT == 10

POSITION_LIMITS == [pos \in 1..4 |-> <<2, 5, 5, 3>>[pos]]

MAX_PER_TEAM == 3

POINT_HIT_PENALTY == 4

SQUAD_SIZE == 15

KEEP_FLOOR == 30

(* thousandths of a point in one point *)
PointUnit == 10 * 100

----------------------------------------------------------------------------
(* Generic helpers *)

Min(a, b) == IF a <= b THEN a ELSE b

Max(a, b) == IF a >= b THEN a ELSE b

Range(s) == {s[i] : i \in DOMAIN s}

(* the sum of a sequence of numbers, by halves *)
RECURSIVE SeqSum(_)
SeqSum(s) ==
    IF Len(s) = 0 THEN 0
    ELSE IF Len(s) = 1 THEN s[1]
    ELSE SeqSum(SubSeq(s, 1, Len(s) \div 2))
             + SeqSum(SubSeq(s, Len(s) \div 2 + 1, Len(s)))

None == <<>>

Some(v) == <<v>>

(* all subsets of S with at most k elements (none when k < 0) *)
RECURSIVE KSubsets(_, _)
KSubsets(S, k) ==
    IF k < 0 THEN {}
    ELSE IF k = 0 THEN {{}}
    ELSE LET prev == KSubsets(S, k - 1)
         IN  prev \cup {T \cup {e} : T \in prev, e \in S}

----------------------------------------------------------------------------
(* Player records and the dictionary reads the code performs on them *)

Player(id, position, team, price, selling_price, ep) ==
    [id |-> id, position |-> position, team |-> team, price |-> price,
     selling_price |-> selling_price, ep |-> ep]

(* player.get(f"ep_gw{gw}", 0) or 0 *)
EpAt(player, gw) == IF gw \in DOMAIN player.ep THEN player.ep[gw] ELSE 0

(* p.get("selling_price", p["price"]) *)
SellingPrice(p) == IF p.selling_price = None THEN p.price ELSE p.selling_price[1]

Ids(players) == {players[i].id : i \in DOMAIN players}

(* players_by_id = {p["id"]: p for p in all_players}: the last entry wins *)
players_by_id(all_players, pid) ==
    LET entries == {i \in DOMAIN all_players : all_players[i].id = pid}
    IN  all_players[CHOOSE i \in entries : \A j \in entries : j <= i]

----------------------------------------------------------------------------
(* prefilter_players *)

(* sum(p.get(f"ep_gw{gw}", 0) or 0 for gw in range(1, min(horizon + 1, 9))) *)
total_ep(p, horizon) ==
    SeqSum([gw \in 1..(Min(horizon + 1, 9) - 1) |-> EpAt(p, gw)])

(* list.sort(key=lambda x: x[1], reverse=True): stable, descending.  The   *)
(* element at position i of the list goes behind the elements with a       *)
(* larger key and behind those with the same key that stood before it.     *)
SortDesc(s, horizon) ==
    LET key == [i \in 1..Len(s) |-> total_ep(s[i], horizon)] \o <<>>
        ahead(i) == {j \in 1..Len(s) : key[j] > key[i] \/ (key[j] = key[i] /\ j < i)}
        place == [i \in 1..Len(s) |-> Cardinality(ahead(i)) + 1] \o <<>>
    IN  [k \in 1..Len(s) |-> s[CHOOSE i \in 1..Len(s) : place[i] = k]] \o <<>>

(* variant: the floor of 30 is missing *)
keep_count_HalfOnly(n) == n \div 2

(* keep_count = max(30, len(by_position[pos]) // 2) *)
keep_count(n) == Max(KEEP_FLOOR, n \div 2)

(* by_position[pos][:keep_count] *)
Take(s, n) == SubSeq(s, 1, Min(n, Len(s)))

non_squad(all_players, current_squad_set) ==
    SelectSeq(all_players, LAMBDA p : p.id \notin current_squad_set)

affordable(all_players, current_squad_set, budget) ==
    SelectSeq(non_squad(all_players, current_squad_set), LAMBDA p : p.price <= budget)

(* by_position[p["position"]].append(...) raises KeyError for a position   *)
(* that is not a key of {1: [], 2: [], 3: [], 4: []}                        *)
PrefilterRaises(all_players, current_squad_set, budget) ==
    \E p \in Range(affordable(all_players, current_squad_set, budget)) :
        p.position \notin 1..4

by_position(all_players, current_squad_set, budget, horizon, pos) ==
    SortDesc(SelectSeq(affordable(all_players, current_squad_set, budget),
                    LAMBDA p : p.position = pos), horizon)

(* variant: the price filter is applied to the squad's players too *)
prefilter_players_PriceAll(all_players, current_squad_set, budget, horizon) ==
    LET kept(pos) ==
            LET group == by_position(all_players, current_squad_set, budget,
                                     horizon, pos)
            IN  Take(group, keep_count(Len(group)))
    IN  SelectSeq(all_players, LAMBDA p : p.id \in current_squad_set /\ p.price <= budget)
            \o kept(1) \o kept(2) \o kept(3) \o kept(4)

prefilter_players(all_players, current_squad_set, budget, horizon) ==
    LET kept(pos) ==
            LET group == by_position(all_players, current_squad_set, budget,
                                     horizon, pos)
            IN  Take(group, keep_count(Len(group)))
    IN  SelectSeq(all_players, LAMBDA p : p.id \in current_squad_set)
            \o kept(1) \o kept(2) \o kept(3) \o kept(4)

----------------------------------------------------------------------------
(* optimize_transfers: decision variables *)

(* The binary variables are dictionaries keyed by player id; an assignment *)
(* gives, for each dictionary, the set of keys whose variable is 1, and    *)
(* the values of the two integer variables:                                *)
(*     [x, t_in, t_out, num_transfers, hits]                               *)

current_squad_set(current_squad) == Range(current_squad)

x_keys(fp) == Ids(fp)

t_in_keys(fp, current_squad) == Ids(fp) \ current_squad_set(current_squad)

t_out_keys(fp, current_squad) == {pid \in Range(current_squad) : pid \in Ids(fp)}

(* variant: the loop runs over the whole horizon *)
get_expected_points_WholeHorizon(player, horizon) ==
    SeqSum([gw \in 1..horizon |->
               EpAt(player, gw) *
               (IF gw <= Len(HORIZON_WEIGHTS) THEN HORIZON_WEIGHTS[gw]
                                               ELSE FALLBACK_WEIGHT)])

(* get_expected_points: range(1, min(horizon + 1, len(HORIZON_WEIGHTS) + 1)) *)
get_expected_points(player, horizon) ==
    SeqSum([gw \in 1..(Min(horizon + 1, Len(HORIZON_WEIGHTS) + 1) - 1) |->
               EpAt(player, gw) *
               (IF gw <= Len(HORIZON_WEIGHTS) THEN HORIZON_WEIGHTS[gw]
                                               ELSE FALLBACK_WEIGHT)])

(* player_ep = {p["id"]: get_expected_points(p) for p in filtered_players} *)
player_ep(fp, horizon) ==
    [pid \in Ids(fp) |-> get_expected_points(players_by_id(fp, pid), horizon)]

(* the players of a list whose variable, looked up by id, is 1 *)
Chosen(players, V) == SelectSeq(players, LAMBDA p : p.id \in V)

----------------------------------------------------------------------------
(* optimize_transfers: objective and constraints, over an assignment a *)

(* variant: the penalty term is missing from the objective *)
Objective_NoPenalty(a, fp, ep) ==
    LET sel == Chosen(fp, a.x)
    IN  SeqSum([i \in 1..Len(sel) |-> ep[sel[i].id]])

(* lpSum(x[id] * player_ep[id] for p in filtered_players) - PENALTY * hits *)
Objective(a, fp, ep) ==
    LET sel == Chosen(fp, a.x)
    IN  SeqSum([i \in 1..Len(sel) |-> ep[sel[i].id]])
            - POINT_HIT_PENALTY * PointUnit * a.hits

Squad_Size(a, fp) == Len(Chosen(fp, a.x)) = SQUAD_SIZE

Position_Limit(a, fp) ==
    \A pos \in DOMAIN POSITION_LIMITS :
        Len(SelectSeq(fp, LAMBDA p : p.id \in a.x /\ p.position = pos))
            = POSITION_LIMITS[pos]

(* variant: the bank argument is ignored *)
available_bank_BudgetOnly(bank, budget) == budget

(* available_bank = bank if bank is not None else budget *)
available_bank(bank, budget) == IF bank # None THEN bank[1] ELSE budget

transfer_in_cost(a, fp, current_squad) ==
    LET bought == SelectSeq(fp, LAMBDA p :
                      p.id \notin current_squad_set(current_squad) /\ p.id \in a.t_in)
    IN  SeqSum([i \in 1..Len(bought) |-> bought[i].price])

transfer_out_revenue(a, fp, current_squad) ==
    LET sold == SelectSeq(fp, LAMBDA p :
                    p.id \in current_squad_set(current_squad) /\ p.id \in a.t_out)
    IN  SeqSum([i \in 1..Len(sold) |-> SellingPrice(sold[i])])

Budget_Constraint(a, fp, current_squad, bank, budget) ==
    transfer_in_cost(a, fp, current_squad) - transfer_out_revenue(a, fp, current_squad)
        <= available_bank(bank, budget)

(* variant: one player too many allowed per team *)
Team_Limit_Loose(a, fp) ==
    \A team \in {fp[i].team : i \in DOMAIN fp} :
        Len(SelectSeq(fp, LAMBDA p : p.id \in a.x /\ p.team = team)) <= MAX_PER_TEAM + 1

Team_Limit(a, fp) ==
    \A team \in {fp[i].team : i \in DOMAIN fp} :
        Len(SelectSeq(fp, LAMBDA p : p.id \in a.x /\ p.team = team)) <= MAX_PER_TEAM

(* t_out[pid] >= 1 - x[pid] and t_out[pid] <= 1 - x[pid] for every owned   *)
(* player: the keys of t_out whose x is 0                                  *)
Transfer_Out_Logic(x, owned) == owned \ x

(* t_in[pid] >= x[pid] and t_in[pid] <= x[pid] for every other player: the *)
(* keys of t_in whose x is 1                                               *)
Transfer_In_Logic(x, other) == other \cap x

Transfer_Logic(a, fp, current_squad) ==
    /\ a.t_out = Transfer_Out_Logic(a.x, t_out_keys(fp, current_squad))
    /\ a.t_in = Transfer_In_Logic(a.x, t_in_keys(fp, current_squad))

Transfer_Balance(a) == Cardinality(a.t_in) = Cardinality(a.t_out)

(* variant: num_transfers only bounded from below *)
Num_Transfers_Definition_Loose(a) == a.num_transfers >= Cardinality(a.t_in)

Num_Transfers_Definition(a) == a.num_transfers = Cardinality(a.t_in)

(* variant: one transfer too many allowed *)
Max_Transfers_OffByOne(a, max_transfers) == a.num_transfers <= max_transfers + 1

(* variant: the bound is strict *)
Max_Transfers_Strict(a, max_transfers) == a.num_transfers < max_transfers

Max_Transfers(a, max_transfers) == a.num_transfers <= max_transfers

(* variant: the free transfers are not deducted *)
Hits_Lower_Bound_NoFree(a, free_transfers) == a.hits >= a.num_transfers

Hits_Lower_Bound(a, free_transfers) == a.hits >= a.num_transfers - free_transfers

(* the constraints that read only the binary variables *)
SquadConstraints(a, req, fp) ==
    /\ Transfer_Balance(a)
    /\ Transfer_Logic(a, fp, req.current_squad)
    /\ Squad_Size(a, fp)
    /\ Position_Limit(a, fp)
    /\ Budget_Constraint(a, fp, req.current_squad, req.bank, req.budget)
    /\ Team_Limit(a, fp)

(* the constraints that read the integer variables *)
CountConstraints(a, req) ==
    /\ Num_Transfers_Definition(a)
    /\ Max_Transfers(a, req.max_transfers)
    /\ Hits_Lower_Bound(a, req.free_transfers)

----------------------------------------------------------------------------
(* prob.solve(solver): the solver is a black box that returns a status     *)
(* and, when the status is Optimal, an assignment that satisfies every     *)
(* constraint and maximises the objective.                                 *)

(* the values of num_transfers constraint 8 admits, among those constraint *)
(* 7 can give it                                                           *)
TransferCounts(req, fp) ==
    {n \in 0..Cardinality(t_in_keys(fp, req.current_squad)) :
        Max_Transfers([num_transfers |-> n], req.max_transfers)}

(* The values of the binary variables examined.  Constraints 5 to 8 leave  *)
(* no other candidates: x is the owned players less t_out plus t_in, t_in  *)
(* and t_out have num_transfers members each, and they take the one value  *)
(* constraint 5 leaves them.                                               *)
BinaryAssignments(req, fp) ==
    LET owned == t_out_keys(fp, req.current_squad)
        other == t_in_keys(fp, req.current_squad)
        counts == TransferCounts(req, fp)
        most == IF counts = {} THEN -1
                ELSE CHOOSE n \in counts : \A m \in counts : m <= n
    IN  {[x |-> x,
          t_in |-> Transfer_In_Logic(x, other),
          t_out |-> Transfer_Out_Logic(x, owned)] :
            x \in {(owned \ o) \cup i : o \in KSubsets(owned, most),
                                        i \in KSubsets(other, most)}}

(* The assignments that satisfy every constraint.  num_transfers and hits  *)
(* are integer variables with lowBound=0; no feasible num_transfers        *)
(* exceeds the number of t_in variables, and hits is examined up to        *)
(* MaxHits.                                                                *)
Feasible(req, fp) ==
    LET squads == {s \in BinaryAssignments(req, fp) : SquadConstraints(s, req, fp)}
        most == Cardinality(t_in_keys(fp, req.current_squad))
    IN  {a \in {[x |-> s.x, t_in |-> s.t_in, t_out |-> s.t_out,
                 num_transfers |-> n, hits |-> h] :
                    s \in squads, n \in 0..most, h \in 0..MaxHits} :
            CountConstraints(a, req)}

OptimalAssignments(req, fp) ==
    LET ep == player_ep(fp, req.horizon)
        scored == {[a |-> a, obj |-> Objective(a, fp, ep)] : a \in Feasible(req, fp)}
    IN  {s.a : s \in {t \in scored : \A u \in scored : u.obj <= t.obj}}

LpStatusOptimal == "Optimal"

(* status and assignment the solver may leave in prob *)
SolverOutcomes(req, fp) ==
    LET best == OptimalAssignments(req, fp)
    IN  IF best # {}
        THEN {[status |-> LpStatusOptimal, values |-> a] : a \in best}
                 \cup {[status |-> "Not Solved", values |-> None]}
        ELSE {[status |-> st, values |-> None] :
                 st \in {"Infeasible", "Undefined", "Not Solved"}}

----------------------------------------------------------------------------
(* optimize_transfers: extraction of the solution *)

IdsOf(players) == [i \in 1..Len(players) |-> players[i].id]

(* [p["id"] for p in filtered_players if pulp.value(x[p["id"]]) > 0.5] *)
final_squad(a, fp) == IdsOf(Chosen(fp, a.x))

(* [pid for pid in t_in if ...]: t_in is keyed in filtered_players order *)
transfers_in_ids(a, fp, current_squad) ==
    IdsOf(SelectSeq(fp, LAMBDA p :
              p.id \notin current_squad_set(current_squad) /\ p.id \in a.t_in))

(* variant: the list is read from x instead of t_out *)
transfers_out_ids_ByX(a, fp, current_squad) ==
    SelectSeq(current_squad, LAMBDA pid : pid \in Ids(fp) /\ pid \in a.x)

(* [pid for pid in t_out if ...]: t_out is keyed in current_squad order *)
transfers_out_ids(a, fp, current_squad) ==
    SelectSeq(current_squad, LAMBDA pid : pid \in Ids(fp) /\ pid \in a.t_out)

(* round(v, 2) of a float that stands for v thousandths: the nearest       *)
(* hundredth; when v lies halfway the binary float is above or below the   *)
(* decimal value and either neighbour can come out                         *)
Round2(v) ==
    IF v % 10 < 5 THEN {v \div 10}
    ELSE IF v % 10 > 5 THEN {v \div 10 + 1}
    ELSE {v \div 10, v \div 10 + 1}

(* variant: the penalty is not subtracted from the reported points *)
expected_points_Gross(a, fp, horizon) ==
    LET squad == final_squad(a, fp)
        ep == player_ep(fp, horizon)
    IN  SeqSum([i \in 1..Len(squad) |-> ep[squad[i]]])

(* sum(player_ep[pid] for pid in final_squad) - point_hit, in thousandths *)
expected_points(a, fp, horizon) ==
    LET squad == final_squad(a, fp)
        ep == player_ep(fp, horizon)
    IN  SeqSum([i \in 1..Len(squad) |-> ep[squad[i]]])
            - a.hits * POINT_HIT_PENALTY * PointUnit

(* the dictionaries optimize_transfers can return on an Optimal status *)
OptimalResults(a, req, fp) ==
    {[error |-> None,
      squad |-> final_squad(a, fp),
      transfers_in |-> [i \in DOMAIN transfers_in_ids(a, fp, req.current_squad) |->
          players_by_id(req.all_players, transfers_in_ids(a, fp, req.current_squad)[i])],
      transfers_out |-> [i \in DOMAIN transfers_out_ids(a, fp, req.current_squad) |->
          players_by_id(req.all_players, transfers_out_ids(a, fp, req.current_squad)[i])],
      total_transfers |-> a.num_transfers,
      point_hit |-> a.hits * POINT_HIT_PENALTY,
      expected_points |-> r] :
        r \in Round2(expected_points(a, fp, req.horizon))}

(* pos_counts[players_by_id[pid]["position"]] += 1 raises KeyError for a   *)
(* position that is not a key of {1: 0, 2: 0, 3: 0, 4: 0}                   *)
DiagnosticsRaise(req) ==
    \E pid \in Range(req.current_squad) :
        /\ pid \in Ids(req.all_players)
        /\ players_by_id(req.all_players, pid).position \notin 1..4

(* the dictionary returned on any other status *)
FailureResult(req, status) ==
    [error |-> Some(status),
     squad |-> req.current_squad,
     transfers_in |-> <<>>,
     transfers_out |-> <<>>,
     total_transfers |-> 0,
     point_hit |-> 0,
     expected_points |-> 0]

Returned(result) ==
    [kind |-> "returned", exception |-> None, at |-> "return", result |-> result]

(* an exception that leaves optimize_transfers, and the place that raised it *)
Raised(exception, at) ==
    [kind |-> "raised", exception |-> Some(exception), at |-> at, result |-> None]

Pending == [kind |-> "pending", exception |-> None, at |-> "", result |-> None]

----------------------------------------------------------------------------
(* The requests explored.  The current squad is players 1..15, a valid     *)
(* 2/5/5/3 squad with three players from each of teams 1..5, every player  *)
(* priced 5.0 and projected 2.0 points a gameweek; player 15, a forward,   *)
(* varies.  The catalog holds two more players, 16 and 17.                 *)

SquadPosition(id) == IF id <= 2 THEN 1 ELSE IF id <= 7 THEN 2 ELSE IF id <= 12 THEN 3 ELSE 4

SquadTeam(id) == (id - 1) \div 3 + 1

SquadPlayer(id) == Player(id, SquadPosition(id), SquadTeam(id), 50, None, <<20, 20>>)

(* player 15: as the others; no projected points and a selling price below *)
(* the purchase price; an unknown position code                            *)
Player15Choices ==
    { SquadPlayer(15),
      Player(15, 4, 5, 50, Some(48), <<0, 0>>),
      Player(15, 5, 5, 50, None, <<20, 20>>) }

(* player 16: a better forward of a new team; a better forward of team 4,  *)
(* which already has three squad players; a forward priced 75.5; an        *)
(* unknown position code at 5.0 and at 90.0                                *)
Player16Choices ==
    { Player(16, 4, 6, 50, None, <<61, 43>>),
      Player(16, 4, 4, 50, None, <<90, 90>>),
      Player(16, 4, 6, 755, None, <<99, 99>>),
      Player(16, 5, 6, 50, None, <<50>>),
      Player(16, 5, 6, 900, None, <<50>>) }

(* player 17: a midfielder priced 5.8; a forward priced 4.8 and barely     *)
(* better than the squad's                                                 *)
Player17Choices ==
    { Player(17, 3, 6, 58, None, <<70>>),
      Player(17, 4, 6, 48, None, <<25, 20>>) }

Catalog(p15, p16, p17) ==
    <<p16>> \o [i \in 1..14 |-> SquadPlayer(i)] \o <<p15, p17>>

CurrentSquad == <<13, 14, 15>> \o [i \in 1..12 |-> i]

(* the budget is the squad's value, 75.0; a budget of 76.0 is explored     *)
(* where it changes something: with the player priced between the two      *)
Budgets(p16) == IF p16.price > 750 /\ p16.price <= 760 THEN {750, 760} ELSE {750}

Banks == {None, Some(-1), Some(0), Some(10)}

Requests ==
    UNION {
        {[current_squad |-> CurrentSquad,
          all_players |-> Catalog(p15, p16, p17),
          budget |-> budget,
          bank |-> bank,
          free_transfers |-> free_transfers,
          horizon |-> horizon,
          max_transfers |-> max_transfers] :
            p15 \in Player15Choices, p17 \in Player17Choices,
            budget \in Budgets(p16), bank \in Banks,
            free_transfers \in 0..MaxFreeTransfers,
            horizon \in 1..MaxHorizon,
            max_transfers \in (-1)..MaxTransfersCap} :
        p16 \in Player16Choices}

Handlers == {"api/optimize-python.py", "api/optimize.py", "python-api/optimize-python.py"}

----------------------------------------------------------------------------
(* State machine: one do_POST call *)

Init ==
    /\ request \in Requests
    /\ pc = "prefilter"
    /\ filtered_players = <<>>
    /\ prob = [status |-> "Not Solved", values |-> None]
    /\ outcome = Pending
    /\ response = None

(* filtered_players = prefilter_players(all_players, current_squad_set, budget, horizon) *)
Prefilter ==
    /\ pc = "prefilter"
    /\ IF PrefilterRaises(request.all_players, current_squad_set(request.current_squad),
                          request.budget)
       THEN /\ outcome' = Raised("KeyError", "prefilter_players")
            /\ pc' = "respond"
            /\ UNCHANGED filtered_players
       ELSE /\ filtered_players' =
                   prefilter_players(request.all_players,
                                     current_squad_set(request.current_squad),
                                     request.budget, request.horizon)
            /\ pc' = "solve"
            /\ UNCHANGED outcome
    /\ UNCHANGED <<request, prob, response>>

(* the model is built and prob.solve(solver) returns *)
Solve ==
    /\ pc = "solve"
    /\ prob' \in SolverOutcomes(request, filtered_players)
    /\ pc' = "extract"
    /\ UNCHANGED <<request, filtered_players, outcome, response>>

(* no solver backend can be run: prob.solve raises PulpSolverError *)
SolverUnavailable ==
    /\ pc = "solve"
    /\ outcome' = Raised("PulpSolverError", "solve")
    /\ pc' = "respond"
    /\ UNCHANGED <<request, filtered_players, prob, response>>

(* prob.status == LpStatusOptimal: the solution is extracted and returned *)
Extract ==
    /\ pc = "extract"
    /\ prob.status = LpStatusOptimal
    /\ \E result \in OptimalResults(prob.values, request, filtered_players) :
           outcome' = Returned(result)
    /\ pc' = "respond"
    /\ UNCHANGED <<request, filtered_players, prob, response>>

(* prob.status != LpStatusOptimal: diagnostics, then the failure payload *)
Fail ==
    /\ pc = "extract"
    /\ prob.status # LpStatusOptimal
    /\ outcome' = IF DiagnosticsRaise(request) THEN Raised("KeyError", "pos_counts")
                  ELSE Returned(FailureResult(request, prob.status))
    /\ pc' = "respond"
    /\ UNCHANGED <<request, filtered_players, prob, response>>

(* do_POST of handler h writes its response *)
Respond(h) ==
    /\ pc = "respond"
    /\ response' =
           Some(IF outcome.kind = "returned"
                THEN [handler |-> h, code |-> 200, body |-> outcome.result]
                ELSE IF outcome.exception = Some("KeyError")
                THEN [handler |-> h, code |-> 400,
                      body |-> [error |-> Some("Missing required field")]]
                ELSE [handler |-> h, code |-> 500,
                      body |-> [error |-> Some("Optimization failed")]])
    /\ pc' = "done"
    /\ UNCHANGED <<request, filtered_players, prob, outcome>>

Next ==
    \/ Prefilter
    \/ Solve
    \/ SolverUnavailable
    \/ Extract
    \/ Fail
    \/ \E h \in Handlers : Respond(h)

Spec == Init /\ [][Next]_vars

----------------------------------------------------------------------------
(* A second family of requests: position groups large enough for           *)
(* prefilter_players to cut them, and horizons beyond the eight weights.   *)
(* The squad is players 1..15 again; player 15, a forward, is priced above *)
(* the budget and has no projected points.  The catalog holds n forwards   *)
(* 101..100+n of teams 6..15, whose prices rise with their points of the   *)
(* first gameweek and who have points in gameweeks 1, 2, 8, 9 and 10; a    *)
(* forward priced above the budget; and two midfielders.                   *)

CandidatePoints(i) ==
    <<(7 * i) % 13, (5 * i) % 11, 0, 0, 0, 0, 0, i % 3, 50 - (i % 50), i % 7>>

Candidate(i) ==
    Player(100 + i, 4, 6 + (i % 10), 45 + CandidatePoints(i)[1], None, CandidatePoints(i))

CutPlayer15 == Player(15, 4, 5, 800, Some(50), <<>>)

CutCatalog(n) ==
    <<Player(300, 4, 16, 900, None, <<99, 99, 99, 99, 99, 99, 99, 99, 99, 99>>)>>
        \o [i \in 1..n |-> Candidate(i)]
        \o [i \in 1..14 |-> SquadPlayer(i)]
        \o <<CutPlayer15,
             Player(201, 3, 17, 50, None, <<22>>),
             Player(202, 3, 17, 50, None, <<22>>)>>

CutRequests ==
    {[current_squad |-> CurrentSquad,
      all_players |-> CutCatalog(n),
      budget |-> 750,
      bank |-> bank,
      free_transfers |-> free_transfers,
      horizon |-> horizon,
      max_transfers |-> max_transfers] :
        n \in {2, KEEP_FLOOR + 1, MaxCandidates},
        bank \in {None, Some(0)},
        free_transfers \in 0..1,
        horizon \in {1, Len(HORIZON_WEIGHTS), MaxLongHorizon},
        max_transfers \in 0..1}

InitCut ==
    /\ request \in CutRequests
    /\ pc = "prefilter"
    /\ filtered_players = <<>>
    /\ prob = [status |-> "Not Solved", values |-> None]
    /\ outcome = Pending
    /\ response = None

SpecCut == InitCut /\ [][Next]_vars

----------------------------------------------------------------------------
(* Vocabulary of the properties *)

Result == outcome.result

ReturnedResult == outcome.kind = "returned"

OptimalResult == ReturnedResult /\ Result.error = None

FailurePayload == ReturnedResult /\ Result.error # None

(* 15 distinct current-squad ids that all resolve in a catalog of unique ids *)
ValidRequest ==
    /\ Len(request.current_squad) = SQUAD_SIZE
    /\ Cardinality(Range(request.current_squad)) = SQUAD_SIZE
    /\ Range(request.current_squad) \subseteq Ids(request.all_players)
    /\ Cardinality(Ids(request.all_players)) = Len(request.all_players)

CatalogPlayer(pid) == players_by_id(request.all_players, pid)

EffectiveBank == IF request.bank = None THEN request.budget ELSE request.bank[1]

(* sum of price over transfers_in minus sum of selling price, or price     *)
(* when there is none, over transfers_out                                  *)
NetSpend ==
    SeqSum([i \in DOMAIN Result.transfers_in |-> Result.transfers_in[i].price])
      - SeqSum([i \in DOMAIN Result.transfers_out |->
                   IF Result.transfers_out[i].selling_price = None
                   THEN Result.transfers_out[i].price
                   ELSE Result.transfers_out[i].selling_price[1]])

----------------------------------------------------------------------------
(* C1: for a valid request, an optimal result's squad has exactly 15       *)
(* members, exactly 2 goalkeepers, 5 defenders, 5 midfielders and 3        *)
(* forwards, and at most 3 players of any one team.                        *)
C1_OptimalSquadShape ==
    (ValidRequest /\ OptimalResult) =>
        LET member == [pid \in Range(Result.squad) |-> CatalogPlayer(pid)]
        IN  /\ Len(Result.squad) = 15
            /\ Cardinality(Range(Result.squad)) = 15
            /\ Cardinality({pid \in DOMAIN member : member[pid].position = 1}) = 2
            /\ Cardinality({pid \in DOMAIN member : member[pid].position = 2}) = 5
            /\ Cardinality({pid \in DOMAIN member : member[pid].position = 3}) = 5
            /\ Cardinality({pid \in DOMAIN member : member[pid].position = 4}) = 3
            /\ \A team \in {member[pid].team : pid \in DOMAIN member} :
                   Cardinality({pid \in DOMAIN member : member[pid].team = team}) <= 3

(* an optimal result that had to replace a squad player whose position is  *)
(* none of the four, next to a candidate of a team with three squad players *)
C1_Witness ==
    /\ ValidRequest /\ OptimalResult
    /\ CatalogPlayer(15).position \notin 1..4
    /\ CatalogPlayer(16).team = 4 /\ CatalogPlayer(16).position = 4
    /\ Result.total_transfers = 2

(* C2, as stated: the net spend of every returned result, failure payloads *)
(* included, is at most the effective bank.                                *)
C2_NetSpendWithinBank_AnyResult == ReturnedResult => NetSpend <= EffectiveBank

(* C2, amended: the net spend of every optimal result is at most the       *)
(* effective bank, and so is that of a failure payload (which is 0) when   *)
(* the effective bank is not negative.                                     *)
C2_NetSpendWithinBank ==
    (ReturnedResult /\ (OptimalResult \/ EffectiveBank >= 0)) =>
        NetSpend <= EffectiveBank

(* an optimal plan that spends the whole of a positive bank that was       *)
(* supplied next to a larger budget                                        *)
C2_Witness ==
    /\ OptimalResult
    /\ request.bank # None
    /\ NetSpend > 0
    /\ NetSpend = EffectiveBank

(* C3: for maxTransfers >= 0, every returned result has as many            *)
(* transfers_in as transfers_out as total_transfers, and total_transfers   *)
(* is at most maxTransfers.                                                *)
C3_TransferCounts ==
    (ReturnedResult /\ request.max_transfers >= 0) =>
        /\ Len(Result.transfers_in) = Len(Result.transfers_out)
        /\ Len(Result.transfers_out) = Result.total_transfers
        /\ Result.total_transfers <= request.max_transfers

(* an optimal result that uses its one allowed transfer although a second  *)
(* one would gain points                                                   *)
C3_Witness ==
    /\ OptimalResult
    /\ request.max_transfers = 1
    /\ Result.total_transfers = 1
    /\ request.free_transfers >= 2
    /\ CatalogPlayer(16).ep = <<61, 43>> /\ CatalogPlayer(17).ep = <<70>>
    /\ request.bank = None

(* C4: in an optimal result point_hit is max(0, total_transfers -          *)
(* freeTransfers) * 4.                                                     *)
C4_PointHit ==
    OptimalResult =>
        Result.point_hit = Max(0, Result.total_transfers - request.free_transfers) * 4

(* an optimal result that pays for a transfer beyond the free ones *)
C4_Witness ==
    /\ OptimalResult
    /\ request.free_transfers = 1
    /\ Result.total_transfers = 2
    /\ Result.point_hit = 4

(* C5: with maxTransfers = 0 every returned result has no transfers and a  *)
(* squad holding exactly the current squad's identifiers.                  *)
C5_NoTransfersAllowed ==
    (ReturnedResult /\ request.max_transfers = 0) =>
        /\ Result.total_transfers = 0
        /\ Result.transfers_in = <<>>
        /\ Result.transfers_out = <<>>
        /\ Range(Result.squad) = Range(request.current_squad)
        /\ Len(Result.squad) = Len(request.current_squad)

(* an optimal result under maxTransfers = 0 that leaves a better and       *)
(* affordable forward outside the squad                                    *)
C5_Witness ==
    /\ OptimalResult
    /\ request.max_transfers = 0
    /\ CatalogPlayer(16).ep = <<61, 43>>
    /\ CatalogPlayer(16).id \in Ids(filtered_players)

(* optimize_transfers got past prob.solve: it returned, or its diagnostics raised *)
SolverReported == outcome.at \in {"return", "pos_counts"}

(* C6, as stated: whenever the solver reports a non-optimal status,        *)
(* optimize_transfers does not raise but returns the unchanged current     *)
(* squad, empty transfer lists, zero total_transfers, point_hit and        *)
(* expected_points, and an error message.                                  *)
C6_NonOptimalReturnsPayload ==
    (SolverReported /\ prob.status # LpStatusOptimal) =>
        /\ ReturnedResult
        /\ Result.squad = request.current_squad
        /\ Result.transfers_in = <<>>
        /\ Result.transfers_out = <<>>
        /\ Result.total_transfers = 0
        /\ Result.point_hit = 0
        /\ Result.expected_points = 0
        /\ Result.error # None

HasUnknownPosition ==
    \E i \in DOMAIN request.all_players : request.all_players[i].position \notin 1..4

(* C7, as stated: a catalog entry with an unknown position code makes      *)
(* optimize_transfers reject the request before any model is built or      *)
(* solved, wherever the entry is and whatever its price.                   *)
C7_UnknownPositionRejected ==
    HasUnknownPosition =>
        /\ pc \notin {"solve", "extract"}
        /\ pc \in {"respond", "done"} => outcome = Raised("KeyError", "prefilter_players")

----------------------------------------------------------------------------
(* The scenario of C8 *)

SquadIds == Range(request.current_squad)

(* the current squad is itself a valid squad *)
SquadValid ==
    /\ ValidRequest
    /\ LET member == [pid \in SquadIds |-> CatalogPlayer(pid)]
       IN  /\ \A pos \in 1..4 :
                  Cardinality({pid \in SquadIds : member[pid].position = pos})
                      = POSITION_LIMITS[pos]
           /\ \A team \in {member[pid].team : pid \in SquadIds} :
                  Cardinality({pid \in SquadIds : member[pid].team = team})
                      <= MAX_PER_TEAM

HorizonPoints(p) == SeqSum([gw \in 1..request.horizon |-> EpAt(p, gw)])

WeightedPoints(p) == get_expected_points(p, request.horizon)

(* squad player P projects zero points over the horizon; R, not owned, of  *)
(* the same position, projects strictly more and is affordable; at least   *)
(* one free transfer and one transfer allowed                              *)
Scenario(P, R) ==
    /\ request.free_transfers >= 1
    /\ request.max_transfers >= 1
    /\ P \in SquadIds
    /\ R \in Ids(request.all_players) \ SquadIds
    /\ \A gw \in 1..request.horizon : EpAt(CatalogPlayer(P), gw) = 0
    /\ CatalogPlayer(R).position = CatalogPlayer(P).position
    /\ HorizonPoints(CatalogPlayer(R)) > HorizonPoints(CatalogPlayer(P))
    /\ CatalogPlayer(R).price <= request.budget
    /\ CatalogPlayer(R).price - SellingPrice(CatalogPlayer(P)) <= EffectiveBank
    /\ SquadValid

Pairs == SquadIds \X (Ids(request.all_players) \ SquadIds)

(* the result is the single swap of P for R, free of charge *)
SingleSwap(P, R) ==
    /\ IdsOf(Result.transfers_out) = <<P>>
    /\ IdsOf(Result.transfers_in) = <<R>>
    /\ Result.total_transfers = 1
    /\ Result.point_hit = 0

(* replacing P by R alone respects the cap of three per team *)
SwapKeepsTeamCap(P, R) ==
    Cardinality({q \in SquadIds \ {P} : CatalogPlayer(q).team = CatalogPlayer(R).team})
        < MAX_PER_TEAM

CurrentSquadPoints ==
    SeqSum([i \in DOMAIN request.current_squad |->
               WeightedPoints(CatalogPlayer(request.current_squad[i]))])

(* C8, as stated: in the scenario, an optimal result transfers P out and   *)
(* R in, with total_transfers = 1 and point_hit = 0.                       *)
C8_SingleSwap ==
    OptimalResult => \A pr \in Pairs : Scenario(pr[1], pr[2]) => SingleSwap(pr[1], pr[2])

(* C8, amended: in the scenario, when R's weighted points are strictly     *)
(* higher than P's, R is among the candidates kept by prefilter_players    *)
(* and replacing P by R alone respects the team cap, an optimal result     *)
(* makes at least one transfer and at most maxTransfers, and its           *)
(* expected_points is, up to the rounding to two decimals, at least the    *)
(* weighted points of the current squad plus those of R.                   *)
C8_AtLeastTheSwap ==
    OptimalResult =>
        \A pr \in Pairs :
            (/\ Scenario(pr[1], pr[2])
             /\ WeightedPoints(CatalogPlayer(pr[2])) > WeightedPoints(CatalogPlayer(pr[1]))
             /\ pr[2] \in Ids(filtered_players)
             /\ SwapKeepsTeamCap(pr[1], pr[2])) =>
                /\ Result.total_transfers >= 1
                /\ Result.total_transfers <= request.max_transfers
                /\ 10 * Result.expected_points + 5 >=
                       CurrentSquadPoints + WeightedPoints(CatalogPlayer(pr[2]))

(* the scenario with an optimal result that is exactly the swap of P for R *)
C8_Witness ==
    /\ OptimalResult
    /\ \E pr \in Pairs :
           /\ Scenario(pr[1], pr[2])
           /\ pr[2] \in Ids(filtered_players)
           /\ SwapKeepsTeamCap(pr[1], pr[2])
           /\ SingleSwap(pr[1], pr[2])

----------------------------------------------------------------------------
(* weighted points of the returned squad, in thousandths *)
ResultSquadPoints ==
    SeqSum([i \in DOMAIN Result.squad |-> WeightedPoints(CatalogPlayer(Result.squad[i]))])

(* C9, as stated: with freeTransfers = 0 and maxTransfers >= 1 an optimal  *)
(* result is zero transfers with point_hit 0 or one transfer with          *)
(* point_hit 4, and expected_points is the squad's weighted points minus   *)
(* that hit.                                                               *)
C9_ZeroOrOneTransfer ==
    (ValidRequest /\ request.free_transfers = 0 /\ request.max_transfers >= 1
        /\ OptimalResult) =>
        /\ \/ Result.total_transfers = 0 /\ Result.point_hit = 0
           \/ Result.total_transfers = 1 /\ Result.point_hit = 4
        /\ 10 * Result.expected_points = ResultSquadPoints - Result.point_hit * PointUnit

(* C9, amended: with freeTransfers = 0 and maxTransfers >= 1 an optimal    *)
(* result makes k transfers, 0 <= k <= maxTransfers, with point_hit 4k,    *)
(* and expected_points is the squad's weighted points minus that hit,      *)
(* rounded to two decimals.                                                *)
C9_HitPerTransfer ==
    (ValidRequest /\ request.free_transfers = 0 /\ request.max_transfers >= 1
        /\ OptimalResult) =>
        /\ Result.total_transfers \in 0..request.max_transfers
        /\ Result.point_hit = 4 * Result.total_transfers
        /\ Result.expected_points \in
               Round2(ResultSquadPoints - Result.point_hit * PointUnit)

(* with no free transfer, an optimal result that makes two transfers and   *)
(* pays 8 points                                                           *)
C9_Witness ==
    /\ ValidRequest /\ request.free_transfers = 0 /\ OptimalResult
    /\ Result.total_transfers = 2
    /\ Result.point_hit = 8

----------------------------------------------------------------------------
(* C10, as stated: when optimize_transfers returns a failure payload, the  *)
(* handler answers with an error response carrying a message, not with the *)
(* success response it uses for a transfer plan.                           *)
C10_FailureIsErrorResponse ==
    (response # None /\ FailurePayload) =>
        /\ response[1].code # 200
        /\ response[1].body.error # None

----------------------------------------------------------------------------
(* prefilter_players has returned: filtered_players holds its result *)
Prefiltered ==
    \/ pc \in {"solve", "extract"}
    \/ pc \in {"respond", "done"} /\ outcome.at # "prefilter_players"

(* the positions of filtered_players that hold player pid *)
CandidateEntries(pid) == {j \in DOMAIN filtered_players : filtered_players[j].id = pid}

(* C11: once prefilter_players has returned for a valid request, every     *)
(* catalog player whose id is in the current squad is in filtered_players  *)
(* exactly once, as the catalog's record, whatever its price and points.   *)
C11_SquadRetainedOnce ==
    (ValidRequest /\ Prefiltered) =>
        \A i \in DOMAIN request.all_players :
            request.all_players[i].id \in SquadIds =>
                /\ Cardinality(CandidateEntries(request.all_players[i].id)) = 1
                /\ \A j \in CandidateEntries(request.all_players[i].id) :
                       filtered_players[j] = request.all_players[i]

(* a squad player priced above the budget and without projected points is  *)
(* a candidate, while a cheaper player of his position with points was cut *)
C11_Witness ==
    /\ ValidRequest /\ Prefiltered
    /\ \E pid \in SquadIds :
           /\ CatalogPlayer(pid).price > request.budget
           /\ HorizonPoints(CatalogPlayer(pid)) = 0
           /\ pid \in Ids(filtered_players)
           /\ \E i \in DOMAIN request.all_players :
                  /\ request.all_players[i].id \notin SquadIds
                  /\ request.all_players[i].id \notin Ids(filtered_players)
                  /\ request.all_players[i].position = CatalogPlayer(pid).position
                  /\ request.all_players[i].price <= request.budget
                  /\ HorizonPoints(request.all_players[i]) > 0

----------------------------------------------------------------------------
(* the optimal objective value of the model built over the players fp: a   *)
(* set with one member, or empty when the model is infeasible              *)
OptimalValues(fp) ==
    {Objective(a, fp, player_ep(fp, request.horizon)) :
        a \in OptimalAssignments(request, fp)}

(* C12, as stated: for a valid request, the model built over the reduced   *)
(* candidate set has the same optimal objective value as the same model    *)
(* built over the full catalog.                                            *)
C12_ReducerPreservesOptimum ==
    (ValidRequest /\ pc = "solve") =>
        OptimalValues(filtered_players) = OptimalValues(request.all_players)

----------------------------------------------------------------------------
(* sum of the catalog prices of the returned squad's players *)
ResultSquadPrice ==
    SeqSum([i \in DOMAIN Result.squad |-> CatalogPlayer(Result.squad[i]).price])

(* C13, as stated: in every optimal result the prices of the 15 players of *)
(* the returned squad sum to at most the request's budget, also when the   *)
(* bank is absent and the budget is used in its place.                     *)
C13_SquadPriceWithinBudget ==
    (ValidRequest /\ OptimalResult) => ResultSquadPrice <= request.budget

----------------------------------------------------------------------------
(* the identifiers listed in transfers_in and in transfers_out *)
ResultIn == Range(IdsOf(Result.transfers_in))

ResultOut == Range(IdsOf(Result.transfers_out))

(* C14: in an optimal result for a valid request, transfers_in lists, once *)
(* each, exactly the players of the returned squad that are not in the     *)
(* current squad, and transfers_out exactly the players of the current     *)
(* squad that are not in the returned squad; the returned squad is the     *)
(* current squad less transfers_out plus transfers_in, and no player is in *)
(* both lists.                                                             *)
C14_TransferLists ==
    (ValidRequest /\ OptimalResult) =>
        /\ ResultIn = Range(Result.squad) \ SquadIds
        /\ ResultOut = SquadIds \ Range(Result.squad)
        /\ Range(Result.squad) = (SquadIds \ ResultOut) \cup ResultIn
        /\ ResultIn \cap ResultOut = {}
        /\ Cardinality(ResultIn) = Len(Result.transfers_in)
        /\ Cardinality(ResultOut) = Len(Result.transfers_out)
        /\ \A i \in DOMAIN Result.transfers_in :
               Result.transfers_in[i] = CatalogPlayer(Result.transfers_in[i].id)
        /\ \A i \in DOMAIN Result.transfers_out :
               Result.transfers_out[i] = CatalogPlayer(Result.transfers_out[i].id)

(* an optimal result that replaces two players of different positions *)
C14_Witness ==
    /\ ValidRequest /\ OptimalResult
    /\ Len(Result.transfers_in) = 2
    /\ Result.transfers_in[1].position # Result.transfers_in[2].position
    /\ Len(Result.transfers_out) = 2

----------------------------------------------------------------------------
(* The rule of C15, stated over the catalog's positions *)

(* the catalog positions of the non-owned players of position pos priced   *)
(* at most the budget                                                      *)
Group(pos) ==
    {i \in DOMAIN request.all_players :
        /\ request.all_players[i].id \notin SquadIds
        /\ request.all_players[i].price <= request.budget
        /\ request.all_players[i].position = pos}

(* unweighted sum of the projected points of the first min(horizon, 8)     *)
(* gameweeks, a missing value counting as zero                             *)
RankingPoints(p) ==
    SeqSum([gw \in 1..Min(request.horizon, 8) |->
               IF gw <= Len(p.ep) THEN p.ep[gw] ELSE 0])

(* catalog entry j is ranked before catalog entry i *)
RankedBefore(j, i) ==
    \/ RankingPoints(request.all_players[j]) > RankingPoints(request.all_players[i])
    \/ /\ RankingPoints(request.all_players[j]) = RankingPoints(request.all_players[i])
       /\ j < i

(* number of members of the group of pos ranked before entry i *)
RankIn(pos, i) == Cardinality({j \in Group(pos) : RankedBefore(j, i)})

(* the catalog position of player pid *)
CatalogIndex(pid) ==
    CHOOSE i \in DOMAIN request.all_players : request.all_players[i].id = pid

(* the non-owned candidates of position pos, in the order of filtered_players *)
KeptOf(pos) ==
    SelectSeq(filtered_players, LAMBDA p : p.id \notin SquadIds /\ p.position = pos)

(* prefilter_players has just returned, the model is not built yet *)
PrefilterReturned == pc = "solve"

(* C15: when prefilter_players returns, the non-owned candidates of each   *)
(* position are players of that position priced at most the budget, as     *)
(* many as min(n, max(30, floor(n/2))) of the n there are; they stand in    *)
(* descending order of the unweighted sum of the points of the first       *)
(* min(horizon, 8) gameweeks, ties in catalog order, and every such player *)
(* left out ranks behind all of them; no other non-owned player is kept.   *)
C15_KeepRule ==
    (ValidRequest /\ PrefilterReturned) =>
        /\ \A pos \in 1..4 :
               LET kept == KeptOf(pos)
                   at == [k \in DOMAIN kept |-> CatalogIndex(kept[k].id)]
                   size == Cardinality(Group(pos))
               IN  /\ Len(kept) = Min(size, Max(30, size \div 2))
                   /\ \A k \in DOMAIN kept :
                          /\ at[k] \in Group(pos)
                          /\ kept[k] = request.all_players[at[k]]
                   /\ \A k \in 1..(Len(kept) - 1) : RankedBefore(at[k], at[k + 1])
                   /\ \A i \in Group(pos) \ Range(at) :
                          \A k \in DOMAIN kept : RankedBefore(at[k], i)
        /\ \A j \in DOMAIN filtered_players :
               filtered_players[j].id \in SquadIds \/ filtered_players[j].position \in 1..4

(* a group of more than 60 is cut to its half, the last player kept and    *)
(* the first player dropped have the same points, and a non-owned player   *)
(* priced above the budget with the most points is not a candidate         *)
C15_Witness ==
    /\ ValidRequest /\ PrefilterReturned
    /\ \E pos \in 1..4 :
           /\ Cardinality(Group(pos)) > 60
           /\ Len(KeptOf(pos)) = Cardinality(Group(pos)) \div 2
           /\ \E i, j \in Group(pos) :
                  /\ RankIn(pos, i) = Len(KeptOf(pos)) - 1
                  /\ RankIn(pos, j) = Len(KeptOf(pos))
                  /\ RankingPoints(request.all_players[i])
                         = RankingPoints(request.all_players[j])
                  /\ request.all_players[j].id \notin Ids(filtered_players)
           /\ \E k \in DOMAIN request.all_players :
                  /\ request.all_players[k].position = pos
                  /\ request.all_players[k].price > request.budget
                  /\ request.all_players[k].id \notin SquadIds \cup Ids(filtered_players)
                  /\ \A i \in Group(pos) :
                         RankingPoints(request.all_players[k])
                             > RankingPoints(request.all_players[i])

----------------------------------------------------------------------------
(* the weighted projected points C16 describes: the eight weights for      *)
(* gameweeks 1 to 8, the flat weight 0.1 for every later gameweek of the   *)
(* horizon                                                                 *)
WeightedWithFallback(p) ==
    SeqSum([gw \in 1..request.horizon |->
               EpAt(p, gw) * (IF gw <= 8 THEN HORIZON_WEIGHTS[gw] ELSE FALLBACK_WEIGHT)])

(* C16, as stated: for a horizon longer than 8, the weighted projected     *)
(* points the objective uses for a candidate are the points of gameweeks 1 *)
(* to 8 under their weights plus 0.1 times the points of every gameweek    *)
(* from 9 up to the horizon.                                               *)
C16_FallbackWeight ==
    (PrefilterReturned /\ request.horizon > 8) =>
        \A pid \in Ids(filtered_players) :
            player_ep(filtered_players, request.horizon)[pid]
                = WeightedWithFallback(CatalogPlayer(pid))

----------------------------------------------------------------------------
(* The comparisons of C17: the same request with horizon 8, and the same   *)
(* request with every player's projected points after gameweek             *)
(* min(horizon, 8) removed                                                 *)

RequestAtEight == [request EXCEPT !.horizon = 8]

Truncated(p) ==
    [p EXCEPT !.ep = SubSeq(p.ep, 1, Min(Len(p.ep), Min(request.horizon, 8)))]

RequestTruncated ==
    [request EXCEPT !.all_players =
        [i \in DOMAIN request.all_players |-> Truncated(request.all_players[i])]]

(* the candidates, the objective coefficients and the optimal assignments  *)
(* with their objective values that optimize_transfers works with on req   *)
ModelOf(req) ==
    LET fp == prefilter_players(req.all_players, current_squad_set(req.current_squad),
                                req.budget, req.horizon)
        ep == player_ep(fp, req.horizon)
    IN  [candidates |-> IdsOf(fp),
         player_ep |-> ep,
         optimum |-> {[a |-> a, objective |-> Objective(a, fp, ep)] :
                         a \in OptimalAssignments(req, fp)}]

(* C17: the candidates, the objective coefficients and the optimal plans   *)
(* with their objective value are, for a horizon of 8 or more, those of    *)
(* the same request with horizon 8, and, for any horizon, those of the     *)
(* same request without the projected points after gameweek                *)
(* min(horizon, 8).                                                        *)
C17_BeyondHorizonIgnored ==
    PrefilterReturned =>
        /\ ModelOf(request).candidates = IdsOf(filtered_players)
        /\ request.horizon >= 8 => ModelOf(request) = ModelOf(RequestAtEight)
        /\ ModelOf(request) = ModelOf(RequestTruncated)

(* a horizon beyond 8 where a forward that was cut has, over the whole     *)
(* horizon, more points than a forward that was kept                       *)
C17_Witness ==
    /\ PrefilterReturned
    /\ request.horizon > 8
    /\ \E i, j \in Group(4) :
           /\ request.all_players[i].id \notin Ids(filtered_players)
           /\ request.all_players[j].id \in Ids(filtered_players)
           /\ HorizonPoints(request.all_players[i]) > HorizonPoints(request.all_players[j])

----------------------------------------------------------------------------
(* the requests C18 is about: a valid current squad, an effective bank     *)
(* that is not negative, freeTransfers >= 0 and maxTransfers >= 0          *)
KeepingIsAllowed ==
    /\ EffectiveBank >= 0
    /\ request.free_transfers >= 0
    /\ request.max_transfers >= 0
    /\ SquadValid

(* optimize_transfers has returned or raised *)
Finished == pc \in {"respond", "done"}

(* C18, as stated: on such a request optimize_transfers returns an optimal *)
(* result, and its expected_points is at least the weighted projected      *)
(* points of the unchanged current squad.                                  *)
C18_OptimalAndNoWorse ==
    (Finished /\ KeepingIsAllowed) =>
        /\ OptimalResult
        /\ 10 * Result.expected_points >= CurrentSquadPoints

(* C18, amended: on such a request the solver, when it reports a status,   *)
(* reports Optimal or Not Solved, never an infeasible model; and every     *)
(* optimal result returned has an expected_points that is the returned     *)
(* squad's weighted points minus point_hit, rounded to two decimals, and   *)
(* is, up to that rounding, at least the weighted points of the current    *)
(* squad.                                                                  *)
C18_NoWorseThanCurrent ==
    /\ (pc = "extract" /\ KeepingIsAllowed) =>
           prob.status \in {LpStatusOptimal, "Not Solved"}
    /\ (OptimalResult /\ KeepingIsAllowed) =>
           /\ Result.expected_points \in
                  Round2(ResultSquadPoints - Result.point_hit * PointUnit)
           /\ 10 * Result.expected_points + 5 >= CurrentSquadPoints

(* an optimal result that pays a hit and still beats the current squad,    *)
(* which it could have kept                                                *)
C18_Witness ==
    /\ OptimalResult
    /\ Result.point_hit > 0
    /\ 10 * Result.expected_points > CurrentSquadPoints
    /\ KeepingIsAllowed

====
